---- MODULE Spec2Model ----
(***************************************************************************)
(* Schema registry and reconciliation of decaf-postgresql.                  *)
(*                                                                         *)
(* Schema.add / Schema.create / Schema.change / Schema.getFromTable are     *)
(* translated from the Schema module; SQL.update from lib/PostgreSQL.js.    *)
(* The database is modelled at the driver boundary: a statement is         *)
(* rejected exactly when an object it names does not resolve or an object   *)
(* it creates already exists; otherwise it has its SQL effect on the        *)
(* catalog.  Dialect and cast restrictions of the engine are not modelled.  *)
(*                                                                         *)
(* Strings that the code builds by concatenation are kept as sequences of   *)
(* tokens: the key 'a,b' is <<"a","b">>, the index name 'test_a,b' is       *)
(* <<"test","_","a",",","b">>.  quoteName(s) makes ONE identifier of s, so  *)
(* a quoted key resolves to a column only when it has a single part.        *)
(***************************************************************************)
EXTENDS Integers, Sequences, FiniteSets, TLC

VARIABLES
    schemas,        \* the registry: table name -> declared schema (var schemas)
    onStartFuncs,   \* queued onCreate hooks, by schema name (var onStartFuncs)
    db,             \* the database catalog: table name -> table
    last,           \* the call that ran last, with the statements it issued
    prev,           \* the call before it: what it was and how it ended
    registered,     \* the keys of the registry in insertion order
    started,        \* builtin.atStart has called onStart
    hooksRun,       \* the onCreate hooks called so far, by schema name
    absentAtAdd,    \* the names whose table was absent when Schema.add probed it
    pool,           \* the connection pool: a stack of connections (var pool)
    nconn,          \* the number of connections opened so far
    threads,        \* per thread: me.SQL, its statements and where it is in them
    tx              \* per connection: the thread whose transaction is open on it

hookVars == <<registered, started, hooksRun, absentAtAdd>>

poolVars == <<pool, nconn, threads, tx>>

schemaVars == <<schemas, onStartFuncs, db, last, prev, hookVars>>

vars == <<schemaVars, poolVars>>

----------------------------------------------------------------------------
(* Bounds *)

MaxFields == 2      \* longest field list and widest table of the drawn families
MaxQueue == 2       \* onCreate hooks queued per run
MaxThreads == 2     \* threads that use the driver

----------------------------------------------------------------------------
(* Generic helpers *)

Range(s) == {s[i] : i \in 1..Len(s)}

RECURSIVE SeqsOver(_, _)
\* all sequences over S of length at most n
SeqsOver(S, n) ==
    IF n = 0 THEN {<<>>}
    ELSE LET shorter == SeqsOver(S, n - 1)
         IN  shorter \cup {Append(s, x) : s \in shorter, x \in S}

DistinctNames(s) == \A i, j \in 1..Len(s) : i # j => s[i].name # s[j].name

RECURSIVE Join(_, _)
\* Array.join / string concatenation of the parts of a key with a separator
Join(key, sep) ==
    IF Len(key) = 0 THEN <<>>
    ELSE IF Len(key) = 1 THEN <<key[1]>>
    ELSE <<key[1], sep>> \o Join(Tail(key), sep)

RECURSIVE Filter(_, _)
\* the elements of s whose name is not in Gone, in order
Filter(s, Gone) ==
    IF s = <<>> THEN <<>>
    ELSE IF Head(s).name \in Gone THEN Filter(Tail(s), Gone)
    ELSE <<Head(s)>> \o Filter(Tail(s), Gone)

TableNames == {"test"}

----------------------------------------------------------------------------
(* Declared schemas (JavaScript values)                                     *)
(*   autoIncrement is "true", "false" or "undefined" (member absent);       *)
(*   size 0 is an absent size; primaryKey <<>> is an absent primaryKey;     *)
(*   defaultValue is a token naming a JavaScript value.                     *)

Field(n, t, sz, ai) ==
    [name |-> n, type |-> t, size |-> sz, autoIncrement |-> ai,
     reserved |-> FALSE, clientOnly |-> FALSE, defaultValue |-> "undefined"]

SchemaOf(n, fs, pk, ix) ==
    [name |-> n, fields |-> fs, primaryKey |-> pk, indexes |-> ix,
     onCreate |-> FALSE]

NoSchema == SchemaOf("", <<>>, <<>>, <<>>)

\* JavaScript truthiness of the value tokens used for defaultValue
Truthy(v) == v \notin {"undefined", "null", "0", "''", "false"}

IsFunction(v) == v \in {"fn7"}

\* the value a function-valued defaultValue returns when called
CallResult(v) == IF v = "fn7" THEN "7" ELSE "undefined"

defaultValue(field) ==
    IF Truthy(field.defaultValue)
    THEN IF IsFunction(field.defaultValue)
         THEN CallResult(field.defaultValue)
         ELSE field.defaultValue
    ELSE IF field.type = "int" THEN "0"
    ELSE IF field.type = "tinyint" THEN "0"
    ELSE "''"

\* SQL.quote: the literal text put into the statement
quote(v) ==
    IF v \in {"null", "undefined"} THEN "NULL"
    ELSE IF v = "true" THEN "'1'"
    ELSE IF v = "false" THEN "'0'"
    ELSE IF v = "0" THEN "'0'"
    ELSE IF v = "7" THEN "'7'"
    ELSE IF v = "''" THEN "''"
    ELSE v

----------------------------------------------------------------------------
(* The database catalog                                                     *)
(*   a column is [name, udt, len, dflt]: udt_name, character_maximum_length *)
(*   (0 = NULL) and column_default ("null" or "nextval");                   *)
(*   pk is the column list of the PRIMARY KEY constraint (<<>> = none);     *)
(*   idx is the list of secondary indexes [iname, cols].                    *)

Col(n, udt, len, dflt) == [name |-> n, udt |-> udt, len |-> len, dflt |-> dflt]

Table(cols, pk, idx) == [exists |-> TRUE, cols |-> cols, pk |-> pk, idx |-> idx]

Absent == [exists |-> FALSE, cols |-> <<>>, pk |-> <<>>, idx |-> <<>>]

ColNames(t) == {t.cols[i].name : i \in 1..Len(t.cols)}

IndexNames(d) == UNION {{d[n].idx[i].iname : i \in 1..Len(d[n].idx)} : n \in DOMAIN d}

\* the type an SQL type name denotes in the catalog
Udt(t) == IF t = "int" THEN "int4" ELSE IF t = "serial" THEN "int4" ELSE t

NoType == [t |-> "", size |-> 0]

\* the catalog column a column definition <name> <type> creates
NewCol(n, ty) ==
    Col(n, Udt(ty.t),
        IF ty.t = "varchar" THEN ty.size ELSE 0,
        IF ty.t = "serial" THEN "nextval" ELSE "null")

----------------------------------------------------------------------------
(* Statements, as the code puts them together *)

Stmt(op, table) ==
    [op |-> op, table |-> table, col |-> "", to |-> "", type |-> NoType,
     key |-> <<>>, iname |-> <<>>, val |-> "", cols |-> <<>>]

DropTableIfExists(t) == Stmt("DropTableIfExists", t)
CreateTable(t, cols, pk) == [Stmt("CreateTable", t) EXCEPT !.cols = cols, !.key = pk]
CreateIndex(t, iname, key) == [Stmt("CreateIndex", t) EXCEPT !.iname = iname, !.key = key]
RenameColumn(t, from, to) == [Stmt("RenameColumn", t) EXCEPT !.col = from, !.to = to]
AlterColumnType(t, c, ty) == [Stmt("AlterColumnType", t) EXCEPT !.col = c, !.type = ty]
DropColumn(t, c) == [Stmt("DropColumn", t) EXCEPT !.col = c]
AddColumn(t, c, ty) == [Stmt("AddColumn", t) EXCEPT !.col = c, !.type = ty]
UpdateAll(t, c, v) == [Stmt("UpdateAll", t) EXCEPT !.col = c, !.val = v]
DropPrimaryKey(t) == Stmt("DropPrimaryKey", t)
AddPrimaryKey(t, key) == [Stmt("AddPrimaryKey", t) EXCEPT !.key = key]
DropIndex(iname) == [Stmt("DropIndex", "") EXCEPT !.iname = iname]
AddIndex(t, iname, key) == [Stmt("AddIndex", t) EXCEPT !.iname = iname, !.key = key]
\* putOne: cols are the column names written; key is what stands between the
\* opening quote of the where clause and its "="
InsertInto(t, names) == [Stmt("InsertInto", t) EXCEPT !.cols = names]
UpdateRow(t, names, key) == [Stmt("UpdateRow", t) EXCEPT !.cols = names, !.key = key]

----------------------------------------------------------------------------
(* The engine: which statements it accepts and what they do to the catalog *)

\* a quoted key is one identifier: it names a column only if it has one part
ResolvesQuoted(t, key) == Len(key) = 1 /\ key[1] \in ColNames(t)

Accepts(d, s) ==
    LET t == IF s.table \in DOMAIN d THEN d[s.table] ELSE Absent
    IN  CASE s.op = "DropTableIfExists" -> TRUE
          [] s.op = "CreateTable" ->
                /\ s.table \in DOMAIN d
                /\ ~t.exists
                /\ DistinctNames(s.cols)
                /\ s.key = <<>> \/
                     (Len(s.key) = 1 /\ s.key[1] \in {s.cols[i].name : i \in 1..Len(s.cols)})
          [] s.op = "CreateIndex" ->
                /\ t.exists
                /\ s.key # <<>>
                /\ Range(s.key) \subseteq ColNames(t)
                /\ s.iname \notin IndexNames(d)
          [] s.op = "RenameColumn" ->
                t.exists /\ s.col \in ColNames(t) /\ s.to \notin ColNames(t)
          [] s.op = "AlterColumnType" -> t.exists /\ s.col \in ColNames(t)
          [] s.op = "DropColumn" -> t.exists /\ s.col \in ColNames(t)
          [] s.op = "AddColumn" -> t.exists /\ s.col \notin ColNames(t)
          [] s.op = "UpdateAll" -> t.exists /\ s.col \in ColNames(t)
          [] s.op = "DropPrimaryKey" -> t.exists /\ t.pk # <<>>
          [] s.op = "AddPrimaryKey" ->
                t.exists /\ t.pk = <<>> /\ ResolvesQuoted(t, s.key)
          [] s.op = "DropIndex" -> s.iname \in IndexNames(d)
          [] s.op = "AddIndex" ->
                /\ t.exists
                /\ s.iname \notin IndexNames(d)
                /\ ResolvesQuoted(t, s.key)
          [] s.op = "InsertInto" -> t.exists /\ Range(s.cols) \subseteq ColNames(t)
          [] s.op = "UpdateRow" ->
                /\ t.exists
                /\ Range(s.cols) \subseteq ColNames(t)
                /\ ResolvesQuoted(t, s.key)
          [] OTHER -> FALSE

RECURSIVE WithoutIndex(_, _)
\* the index list without the index called iname
WithoutIndex(idx, iname) ==
    IF idx = <<>> THEN <<>>
    ELSE IF Head(idx).iname = iname THEN WithoutIndex(Tail(idx), iname)
    ELSE <<Head(idx)>> \o WithoutIndex(Tail(idx), iname)

RECURSIVE WithoutIndexesOn(_, _)
\* the index list without the indexes that cover column c
WithoutIndexesOn(idx, c) ==
    IF idx = <<>> THEN <<>>
    ELSE IF c \in Range(Head(idx).cols) THEN WithoutIndexesOn(Tail(idx), c)
    ELSE <<Head(idx)>> \o WithoutIndexesOn(Tail(idx), c)

RenameIn(key, from, to) == [i \in 1..Len(key) |-> IF key[i] = from THEN to ELSE key[i]]

\* the catalog after an accepted statement
Effect(d, s) ==
    LET t == IF s.table \in DOMAIN d THEN d[s.table] ELSE Absent
    IN  CASE s.op = "DropTableIfExists" ->
                IF s.table \in DOMAIN d THEN [d EXCEPT ![s.table] = Absent] ELSE d
          [] s.op = "CreateTable" ->
                [d EXCEPT ![s.table] =
                    Table([i \in 1..Len(s.cols) |-> NewCol(s.cols[i].name, s.cols[i].type)],
                          s.key, <<>>)]
          [] s.op = "CreateIndex" ->
                [d EXCEPT ![s.table].idx = Append(@, [iname |-> s.iname, cols |-> s.key])]
          [] s.op = "RenameColumn" ->
                [d EXCEPT ![s.table] =
                    [t EXCEPT
                      !.cols = [i \in 1..Len(t.cols) |->
                                  IF t.cols[i].name = s.col
                                  THEN [t.cols[i] EXCEPT !.name = s.to]
                                  ELSE t.cols[i]],
                      !.pk = RenameIn(t.pk, s.col, s.to),
                      !.idx = [i \in 1..Len(t.idx) |->
                                  [t.idx[i] EXCEPT !.cols = RenameIn(@, s.col, s.to)]]]]
          [] s.op = "AlterColumnType" ->
                [d EXCEPT ![s.table].cols =
                    [i \in 1..Len(t.cols) |->
                        IF t.cols[i].name = s.col
                        THEN [NewCol(s.col, s.type) EXCEPT
                                !.dflt = IF s.type.t = "serial" THEN "nextval"
                                         ELSE t.cols[i].dflt]
                        ELSE t.cols[i]]]
          [] s.op = "DropColumn" ->
                [d EXCEPT ![s.table] =
                    [t EXCEPT
                      !.cols = Filter(t.cols, {s.col}),
                      !.pk = IF s.col \in Range(t.pk) THEN <<>> ELSE t.pk,
                      !.idx = WithoutIndexesOn(t.idx, s.col)]]
          [] s.op = "AddColumn" ->
                [d EXCEPT ![s.table].cols = Append(@, NewCol(s.col, s.type))]
          [] s.op = "DropPrimaryKey" -> [d EXCEPT ![s.table].pk = <<>>]
          [] s.op = "AddPrimaryKey" -> [d EXCEPT ![s.table].pk = s.key]
          [] s.op = "DropIndex" ->
                [n \in DOMAIN d |-> [d[n] EXCEPT !.idx = WithoutIndex(@, s.iname)]]
          [] s.op = "AddIndex" ->
                [d EXCEPT ![s.table].idx = Append(@, [iname |-> s.iname, cols |-> s.key])]
          [] OTHER -> d

\* SQL.update of one statement after another: the first rejected statement
\* throws, so nothing after it is issued.  log records each statement issued
\* and whether the engine accepted it.
RECURSIVE Run(_, _)
Run(d, stmts) ==
    IF stmts = <<>> THEN [db |-> d, log |-> <<>>]
    ELSE IF ~Accepts(d, Head(stmts))
         THEN [db |-> d, log |-> <<[stmt |-> Head(stmts), ok |-> FALSE]>>]
         ELSE LET rest == Run(Effect(d, Head(stmts)), Tail(stmts))
              IN  [db |-> rest.db,
                   log |-> <<[stmt |-> Head(stmts), ok |-> TRUE]>> \o rest.log]

Failed(log) == \E i \in 1..Len(log) : ~log[i].ok

----------------------------------------------------------------------------
(* Schema.exists and Schema.getFromTable *)

\* SELECT "name"::regclass throws when the name resolves to no table
ProbeThrows(d, name) == ~(name \in DOMAIN d /\ d[name].exists)

exists(d, name) == ~ProbeThrows(d, name)

\* the rows of the primary-key query come back in no stated order and
\* getScalar keeps the first column of the first row: r is the row that
\* comes first (0 when there is none)
PkRowChoices(d, name) ==
    IF name \in DOMAIN d /\ d[name].exists /\ d[name].pk # <<>>
    THEN 1..Len(d[name].pk)
    ELSE {0}

IntrospectedField(col) ==
    LET type == IF col.udt = "int4" THEN "int" ELSE col.udt
    IN  IF col.dflt = "nextval"
        THEN [name |-> col.name, type |-> type, size |-> col.len,
              autoIncrement |-> "true", reserved |-> FALSE, clientOnly |-> FALSE,
              defaultValue |-> "0"]
        ELSE [name |-> col.name, type |-> type, size |-> col.len,
              autoIncrement |-> "undefined", reserved |-> FALSE, clientOnly |-> FALSE,
              defaultValue |-> IF col.dflt = "null" THEN "undefined" ELSE col.dflt]

\* row.index_name.indexOf('_pkey') === 0
StartsWithPkey(iname) == iname # <<>> /\ iname[1] = "_pkey"

\* one row (index_name, column_name) per column of every index of the table,
\* the index that backs the primary key included
RECURSIVE IndexRows(_)
IndexRows(idx) ==
    IF idx = <<>> THEN <<>>
    ELSE [i \in 1..Len(Head(idx).cols) |->
             [index_name |-> Head(idx).iname, column_name |-> Head(idx).cols[i]]]
         \o IndexRows(Tail(idx))

RECURSIVE IndexArray(_)
IndexArray(rows) ==
    IF rows = <<>> THEN <<>>
    ELSE IF StartsWithPkey(Head(rows).index_name)
         THEN <<<<Head(rows).column_name>>>> \o IndexArray(Tail(rows))
         ELSE IndexArray(Tail(rows))

getFromTable(d, name, r) ==
    LET t == IF name \in DOMAIN d /\ d[name].exists THEN d[name] ELSE Absent
        pkIndex == IF t.pk = <<>> THEN <<>>
                   ELSE <<[iname |-> <<name, "_pkey">>, cols |-> t.pk]>>
    IN  [name |-> name,
         primaryKey |-> IF r = 0 THEN <<>> ELSE <<t.pk[r]>>,
         fields |-> [i \in 1..Len(t.cols) |-> IntrospectedField(t.cols[i])],
         indexes |-> IndexArray(IndexRows(pkIndex \o t.idx)),
         onCreate |-> FALSE]

----------------------------------------------------------------------------
(* Schema.create *)

Physical(field) == ~field.reserved /\ ~field.clientOnly

RECURSIVE PhysicalFields(_)
PhysicalFields(fields) ==
    IF fields = <<>> THEN <<>>
    ELSE IF Physical(Head(fields))
         THEN <<Head(fields)>> \o PhysicalFields(Tail(fields))
         ELSE PhysicalFields(Tail(fields))

CreateColumnType(field) ==
    IF field.autoIncrement = "true" THEN [t |-> "serial", size |-> 0]
    ELSE IF field.type = "varchar" THEN [t |-> "varchar", size |-> field.size]
    ELSE [t |-> field.type, size |-> 0]

RECURSIVE LastAutoIncrement(_)
\* var primaryKey of create: the last physical autoIncrement field, if any
LastAutoIncrement(fields) ==
    IF fields = <<>> THEN <<>>
    ELSE LET later == LastAutoIncrement(Tail(fields))
         IN  IF later # <<>> THEN later
             ELSE IF Head(fields).autoIncrement = "true" THEN <<Head(fields).name>>
             ELSE <<>>

\* a create that knows no implicit primary key
CreatePrimaryKey_declaredOnly(schema) == schema.primaryKey

CreatePrimaryKey(schema) ==
    IF schema.primaryKey # <<>> THEN schema.primaryKey
    ELSE LastAutoIncrement(PhysicalFields(schema.fields))

CreateIndexName(name, index) == <<name, "_">> \o Join(index, ",")

CreateStmts(schema, name, drop) ==
    LET phys == PhysicalFields(schema.fields)
    IN  (IF drop THEN <<DropTableIfExists(schema.name)>> ELSE <<>>)
        \o <<CreateTable(name,
                         [i \in 1..Len(phys) |->
                            [name |-> phys[i].name, type |-> CreateColumnType(phys[i])]],
                         CreatePrimaryKey(schema))>>
        \o [i \in 1..Len(schema.indexes) |->
              CreateIndex(name, CreateIndexName(name, schema.indexes[i]), schema.indexes[i])]

----------------------------------------------------------------------------
(* Schema.change *)

\* parseInt(a.size, 10) === parseInt(b.size, 10); an absent size is NaN
SameSize(a, b) == a.size # 0 /\ b.size # 0 /\ a.size = b.size

fieldTypeCompare(srcField, dstField) ==
    IF srcField.type = dstField.type
    THEN IF srcField.type = "varchar" THEN SameSize(srcField, dstField)
         ELSE IF srcField.type = "int"
              THEN srcField.autoIncrement = dstField.autoIncrement
              ELSE TRUE
    ELSE FALSE

\* changeField that writes the type name alone
ChangeColumnType_typeOnly(srcField) == [t |-> srcField.type, size |-> 0]

ChangeColumnType(srcField) ==
    IF srcField.autoIncrement = "true" THEN [t |-> "serial", size |-> 0]
    ELSE IF srcField.type = "varchar" THEN [t |-> "varchar", size |-> srcField.size]
    ELSE [t |-> srcField.type, size |-> 0]

changeField(name, srcField, dstField) ==
    (IF dstField.name # srcField.name
     THEN <<RenameColumn(name, dstField.name, srcField.name)>>
     ELSE <<>>)
    \o <<AlterColumnType(name, dstField.name, ChangeColumnType(srcField))>>

AddColumnType(field) ==
    IF field.autoIncrement = "true" THEN [t |-> "serial", size |-> 0]
    ELSE IF field.type = "varchar" THEN [t |-> "varchar", size |-> field.size]
    ELSE [t |-> field.type, size |-> 0]

addField(name, field) ==
    <<AddColumn(name, field.name, AddColumnType(field)),
      UpdateAll(name, field.name, quote(defaultValue(field)))>>

\* a change that never takes an existing field for a renamed one
findDstField_none(srcField, dstFields) == <<>>

\* the first remaining existing field that compares equal in type, as a
\* one-element sequence, or <<>> (false)
RECURSIVE findDstField(_, _)
findDstField(srcField, dstFields) ==
    IF dstFields = <<>> THEN <<>>
    ELSE IF fieldTypeCompare(srcField, Head(dstFields)) THEN <<Head(dstFields)>>
    ELSE findDstField(srcField, Tail(dstFields))

ByName(fields, n) == CHOOSE f \in Range(fields) : f.name = n

Names(fields) == {fields[i].name : i \in 1..Len(fields)}

\* first loop: schema fields that have an existing field of the same name
RECURSIVE ExactNamePass(_, _, _)
ExactNamePass(name, srcFields, dstFields) ==
    IF srcFields = <<>> THEN <<>>
    ELSE LET srcField == Head(srcFields)
             rest == ExactNamePass(name, Tail(srcFields), dstFields)
         IN  IF srcField.name \in Names(dstFields)
                /\ ~fieldTypeCompare(srcField, ByName(dstFields, srcField.name))
             THEN changeField(name, srcField, ByName(dstFields, srcField.name)) \o rest
             ELSE rest

\* second loop: remaining schema fields take the first remaining existing
\* field of a compatible type.  Gives the statements, the existing fields
\* left over and the schema fields processed.
RECURSIVE RenamePass_keepsDst(_, _, _)
\* a rename pass that leaves the renamed column among the existing fields
RenamePass_keepsDst(name, srcFields, dstFields) ==
    IF srcFields = <<>>
    THEN [stmts |-> <<>>, dstFields |-> dstFields, processed |-> {}]
    ELSE LET srcField == Head(srcFields)
             found == findDstField(srcField, dstFields)
         IN  IF found # <<>>
             THEN LET rest == RenamePass_keepsDst(name, Tail(srcFields), dstFields)
                  IN  [stmts |-> changeField(name, srcField, found[1]) \o rest.stmts,
                       dstFields |-> rest.dstFields,
                       processed |-> rest.processed \cup {srcField.name}]
             ELSE RenamePass_keepsDst(name, Tail(srcFields), dstFields)

RECURSIVE RenamePass(_, _, _)
RenamePass(name, srcFields, dstFields) ==
    IF srcFields = <<>>
    THEN [stmts |-> <<>>, dstFields |-> dstFields, processed |-> {}]
    ELSE LET srcField == Head(srcFields)
             found == findDstField(srcField, dstFields)
         IN  IF found # <<>>
             THEN LET rest == RenamePass(name, Tail(srcFields),
                                         Filter(dstFields, {found[1].name}))
                  IN  [stmts |-> changeField(name, srcField, found[1]) \o rest.stmts,
                       dstFields |-> rest.dstFields,
                       processed |-> rest.processed \cup {srcField.name}]
             ELSE RenamePass(name, Tail(srcFields), dstFields)

RECURSIVE DropPass(_, _)
DropPass(name, dstFields) ==
    IF dstFields = <<>> THEN <<>>
    ELSE <<DropColumn(name, Head(dstFields).name)>> \o DropPass(name, Tail(dstFields))

RECURSIVE AddPass(_, _)
AddPass(name, srcFields) ==
    IF srcFields = <<>> THEN <<>>
    ELSE addField(name, Head(srcFields)) \o AddPass(name, Tail(srcFields))

\* the column passes with the adds ahead of the drops
ColumnPasses_addsFirst(name, schema, existing) ==
    LET srcFields == PhysicalFields(schema.fields)
        dstFields == existing.fields
        same == Names(srcFields) \cap Names(dstFields)
        renamed == RenamePass(name, Filter(srcFields, same), Filter(dstFields, same))
    IN  ExactNamePass(name, srcFields, dstFields)
        \o renamed.stmts
        \o AddPass(name, Filter(srcFields, same \cup renamed.processed))
        \o DropPass(name, renamed.dstFields)

ColumnPasses(name, schema, existing) ==
    LET srcFields == PhysicalFields(schema.fields)
        dstFields == existing.fields
        same == Names(srcFields) \cap Names(dstFields)
        renamed == RenamePass(name, Filter(srcFields, same), Filter(dstFields, same))
    IN  ExactNamePass(name, srcFields, dstFields)
        \o renamed.stmts
        \o DropPass(name, renamed.dstFields)
        \o AddPass(name, Filter(srcFields, same \cup renamed.processed))

PrimaryKeyPass(name, schema, existing) ==
    IF existing.primaryKey # <<>> /\ schema.primaryKey = <<>>
    THEN <<DropPrimaryKey(name)>>
    ELSE IF schema.primaryKey # <<>> /\ existing.primaryKey = <<>>
    THEN <<AddPrimaryKey(name, schema.primaryKey)>>
    ELSE IF schema.primaryKey # existing.primaryKey
    THEN <<DropPrimaryKey(name), AddPrimaryKey(name, schema.primaryKey)>>
    ELSE <<>>

RECURSIVE Dedup(_)
\* the keys of the object existingIndexes, in insertion order
Dedup(keys) ==
    IF keys = <<>> THEN <<>>
    ELSE LET front == Dedup(SubSeq(keys, 1, Len(keys) - 1))
             k == keys[Len(keys)]
         IN  IF k \in Range(front) THEN front ELSE Append(front, k)

RECURSIVE Without(_, _)
Without(keys, k) ==
    IF keys = <<>> THEN <<>>
    ELSE IF Head(keys) = k THEN Without(Tail(keys), k)
    ELSE <<Head(keys)>> \o Without(Tail(keys), k)

\* the loop over schema.indexes: a declared index found among the existing
\* ones is deleted from them, any other is new
RECURSIVE MatchIndexes(_, _)
MatchIndexes(indexes, existingIndexes) ==
    IF indexes = <<>> THEN [existingIndexes |-> existingIndexes, newIndexes |-> <<>>]
    ELSE LET index == Head(indexes)
         IN  IF index \in Range(existingIndexes)
             THEN MatchIndexes(Tail(indexes), Without(existingIndexes, index))
             ELSE LET rest == MatchIndexes(Tail(indexes), existingIndexes)
                  IN  [existingIndexes |-> rest.existingIndexes,
                       newIndexes |-> <<index>> \o rest.newIndexes]

ChangeIndexName(index) == Join(index, "_")

IndexPass(name, schema, existing) ==
    LET m == MatchIndexes(schema.indexes, Dedup(existing.indexes))
    IN  [i \in 1..Len(m.existingIndexes) |->
            DropIndex(ChangeIndexName(m.existingIndexes[i]))]
        \o [i \in 1..Len(m.newIndexes) |->
            AddIndex(name, ChangeIndexName(m.newIndexes[i]), m.newIndexes[i])]

ChangeStmts(name, schema, existing) ==
    ColumnPasses(name, schema, existing)
    \o PrimaryKeyPass(name, schema, existing)
    \o IndexPass(name, schema, existing)

----------------------------------------------------------------------------
(* The declarations and the tables the runs are drawn from *)

A_auto == Field("a", "int", 0, "true")
A_none == Field("a", "int", 0, "false")
A_int == Field("a", "int", 0, "undefined")
B_10 == Field("b", "varchar", 10, "undefined")
B_20 == Field("b", "varchar", 20, "undefined")
C_int == Field("c", "int", 0, "undefined")
C_reserved == [Field("c", "int", 0, "undefined") EXCEPT !.reserved = TRUE]
D_10x == [Field("d", "varchar", 10, "undefined") EXCEPT !.defaultValue = "'x'"]

FieldPool == {A_auto, A_none, A_int, B_10, B_20, C_int, C_reserved, D_10x}

ColPool ==
    {Col("a", "int4", 0, "nextval"), Col("a", "int4", 0, "null"),
     Col("b", "varchar", 10, "null"), Col("c", "int4", 0, "null")}

FieldLists == {fs \in SeqsOver(FieldPool, MaxFields) : fs # <<>> /\ DistinctNames(fs)}

ColLists == {cs \in SeqsOver(ColPool, MaxFields) : cs # <<>> /\ DistinctNames(cs)}

\* declarations that vary the fields
ColSchemas ==
    {SchemaOf("test", fs, <<>>, <<>>) : fs \in FieldLists}
    \cup {SchemaOf("test", fs, <<"a">>, <<>>) : fs \in {x \in FieldLists : "a" \in Names(x)}}

\* declarations that vary the primary key and the indexes
KeySchemas ==
    {SchemaOf("test", <<A_int, B_10, C_int>>, pk, ix) :
        pk \in {<<>>, <<"a">>, <<"b">>, <<"a", "b">>},
        ix \in {<<>>, <<<<"a">>, <<"b">>>>, <<<<"c">>>>, <<<<"a", "b">>>>}}

\* examples/schema/test.js
ExampleSchema ==
    SchemaOf("test",
             <<A_auto, B_10, Field("d", "int", 0, "undefined"),
               Field("testCamelCase", "varchar", 20, "undefined")>>,
             <<"a">>, <<>>)

HookSchema == [SchemaOf("test", <<A_auto, B_10>>, <<"a">>, <<>>) EXCEPT !.onCreate = TRUE]

\* fields that vary the declared default: literals that are falsy in
\* JavaScript, a function, none, and the small-integer type
DefaultPool ==
    {[Field("d", "varchar", 20, "undefined") EXCEPT !.defaultValue = "0"],
     [Field("d", "int", 0, "undefined") EXCEPT !.defaultValue = "''"],
     [Field("d", "int", 0, "undefined") EXCEPT !.defaultValue = "false"],
     [Field("d", "int", 0, "undefined") EXCEPT !.defaultValue = "fn7"],
     Field("d", "tinyint", 0, "undefined"),
     Field("d", "smallint", 0, "undefined"),
     Field("d", "text", 0, "undefined")}

DefaultSchemas == {SchemaOf("test", <<f>>, <<>>, <<>>) : f \in DefaultPool}

Declared == ColSchemas \cup KeySchemas \cup DefaultSchemas \cup {ExampleSchema, HookSchema}

ColTables ==
    {Table(cs, <<>>, <<>>) : cs \in ColLists}
    \cup {Table(cs, <<"a">>, <<>>) : cs \in {x \in ColLists : "a" \in Names(x)}}

KeyCols == <<Col("a", "int4", 0, "null"), Col("b", "varchar", 10, "null"),
             Col("c", "int4", 0, "null")>>

\* indexes as Schema.create names them, and indexes made by other hands
CreatedIndexes == <<[iname |-> <<"test", "_", "b">>, cols |-> <<"b">>],
                    [iname |-> <<"test", "_", "c">>, cols |-> <<"c">>]>>
ForeignIndexes == <<[iname |-> <<"_pkey", "_", "b">>, cols |-> <<"b">>],
                    [iname |-> <<"_pkey", "_", "c">>, cols |-> <<"c">>]>>

KeyTables ==
    {Table(KeyCols, pk, ix) :
        pk \in {<<>>, <<"a">>, <<"a", "b">>},
        ix \in {<<>>, CreatedIndexes, ForeignIndexes}}

\* the table the first registration of the example leaves behind
ExampleTable ==
    Table(<<Col("a", "int4", 0, "nextval"), Col("b", "varchar", 10, "null"),
            Col("c", "int4", 0, "null")>>, <<"a">>, <<>>)

Tables == ColTables \cup KeyTables \cup {ExampleTable, Absent}

----------------------------------------------------------------------------
(* The calls *)

\* a call as it ended: pre is the table before it, r the primary-key row
\* that came first, created / reconciled tell whether Schema.create /
\* Schema.change ran in it, threw whether an error reached the caller
Call(op, name, pre, r, created, createLog, reconciled, changeLog, threw) ==
    [op |-> op, name |-> name, pre |-> pre, r |-> r,
     created |-> created, createLog |-> createLog,
     reconciled |-> reconciled, changeLog |-> changeLog, threw |-> threw,
     putLog |-> <<>>]

NoCall == Call("init", "", Absent, 0, FALSE, <<>>, FALSE, <<>>, FALSE)

Summary(call) ==
    [op |-> call.op,
     preExists |-> call.pre.exists,
     created |-> call.created /\ ~Failed(call.createLog),
     applied |-> call.reconciled /\ ~Failed(call.changeLog)]

\* the threads of the process, each with the statements it will issue
Threads == 1..MaxThreads

Thread(script) == [SQL |-> 0, script |-> script, at |-> 1, step |-> "idle", begun |-> 0]

\* no thread has work for the driver
NoThreads ==
    /\ pool = <<>>
    /\ nconn = 0
    /\ threads = [t \in Threads |-> Thread(<<>>)]
    /\ tx = [c \in Threads |-> 0]

Init ==
    /\ schemas = [n \in TableNames |-> NoSchema]
    /\ onStartFuncs = <<>>
    /\ db \in [TableNames -> Tables]
    /\ last = NoCall
    /\ prev = Summary(NoCall)
    /\ registered = <<>>
    /\ started = FALSE
    /\ hooksRun = <<>>
    /\ absentAtAdd = {}
    /\ NoThreads

\* Schema.add(schema): the probe, then create, and change when either throws.
\* A declaration is registered once per run, or again unchanged.
add(schema, r) ==
    LET name == schema.name
    IN  /\ schemas[name] \in {NoSchema, schema}
        /\ schemas' = [schemas EXCEPT ![name] = schema]
        /\ registered' = IF name \in Range(registered) THEN registered
                         ELSE Append(registered, name)
        /\ absentAtAdd' = IF ProbeThrows(db, name) THEN absentAtAdd \cup {name}
                          ELSE absentAtAdd
        /\ UNCHANGED <<started, hooksRun, poolVars>>
        /\ prev' = Summary(last)
        /\ IF ~ProbeThrows(db, name)
           THEN LET c == Run(db, CreateStmts(schema, name, FALSE))
                IN  IF ~Failed(c.log)
                    THEN /\ db' = c.db
                         /\ onStartFuncs' = IF schema.onCreate
                                            THEN Append(onStartFuncs, name)
                                            ELSE onStartFuncs
                         /\ last' = Call("add", name, db[name], 0,
                                         TRUE, c.log, FALSE, <<>>, FALSE)
                    ELSE LET g == Run(c.db,
                                      ChangeStmts(name, schema, getFromTable(c.db, name, r)))
                         IN  /\ db' = g.db
                             /\ onStartFuncs' = onStartFuncs
                             /\ last' = Call("add", name, db[name], r,
                                             TRUE, c.log, TRUE, g.log, FALSE)
           ELSE LET g == Run(db, ChangeStmts(name, schema, getFromTable(db, name, r)))
                IN  /\ db' = g.db
                    /\ onStartFuncs' = onStartFuncs
                    /\ last' = Call("add", name, db[name], r,
                                    FALSE, <<>>, TRUE, g.log, FALSE)

\* Schema.change(name), called directly
change(name, r) ==
    LET schema == schemas[name]
        g == Run(db, ChangeStmts(name, schema, getFromTable(db, name, r)))
    IN  /\ schema # NoSchema
        /\ db' = g.db
        /\ last' = Call("change", name, db[name], r,
                        FALSE, <<>>, TRUE, g.log, Failed(g.log))
        /\ prev' = Summary(last)
        /\ UNCHANGED <<schemas, onStartFuncs, hookVars, poolVars>>

\* Schema.create(name, drop), called directly
create(name, drop) ==
    LET schema == schemas[name]
        c == Run(db, CreateStmts(schema, name, drop))
    IN  /\ schema # NoSchema
        /\ schema.onCreate => Len(onStartFuncs) < MaxQueue
        /\ db' = c.db
        /\ onStartFuncs' = IF ~Failed(c.log) /\ schema.onCreate
                           THEN Append(onStartFuncs, name)
                           ELSE onStartFuncs
        /\ last' = Call(IF drop THEN "recreate" ELSE "create", name, db[name], 0,
                        TRUE, c.log, FALSE, <<>>, Failed(c.log))
        /\ prev' = Summary(last)
        /\ UNCHANGED <<schemas, hookVars, poolVars>>

\* onStart(), called once by builtin.atStart: every queued hook, in queue order
onStart ==
    /\ ~started
    /\ started' = TRUE
    /\ hooksRun' = hooksRun \o onStartFuncs
    /\ last' = Call("onStart", "", Absent, 0, FALSE, <<>>, FALSE, <<>>, FALSE)
    /\ prev' = Summary(last)
    /\ UNCHANGED <<schemas, onStartFuncs, db, registered, absentAtAdd, poolVars>>

\* schema.primaryKeyField, as Schema.add sets it: the field whose name is the
\* whole primaryKey string (<<>> when there is none)
primaryKeyField(schema) ==
    IF Len(schema.primaryKey) # 1 THEN <<>>
    ELSE LET hits == {i \in 1..Len(schema.fields) :
                         schema.fields[i].name = schema.primaryKey[1]}
         IN  IF hits = {} THEN <<>>
             ELSE <<schema.fields[CHOOSE i \in hits : \A j \in hits : i <= j]>>

\* the statement Schema.putOne builds; hasKey: the example carries a key value
PutOneStmts(schema, hasKey) ==
    LET primaryKey == IF Len(schema.primaryKey) = 1 THEN schema.primaryKey ELSE <<>>
        pkf == primaryKeyField(schema)
        written == Filter(PhysicalFields(schema.fields), Range(primaryKey))
    IN  IF pkf # <<>> /\ pkf[1].autoIncrement = "true"
        THEN IF hasKey
             THEN <<UpdateRow(schema.name,
                              [i \in 1..Len(schema.fields) |-> schema.fields[i].name],
                              schema.primaryKey \o <<"\"">>)>>
             ELSE <<InsertInto(schema.name,
                               [i \in 1..Len(written) |-> written[i].name])>>
        ELSE <<>>

\* Schema.putOne(name, example).  lastval: SELECT LASTVAL() has a value in
\* this session; it has one after an insert into a serial column
putOne(name, hasKey, lastval) ==
    LET schema == schemas[name]
        g == Run(db, PutOneStmts(schema, hasKey))
        inserted == /\ g.log # <<>>
                    /\ g.log[1].ok
                    /\ g.log[1].stmt.op = "InsertInto"
                    /\ \E i \in 1..Len(db[name].cols) : db[name].cols[i].dflt = "nextval"
        insertId == Len(schema.primaryKey) = 1 /\ ~hasKey /\ ~Failed(g.log)
    IN  /\ schema # NoSchema
        /\ inserted => lastval
        /\ db' = g.db
        /\ last' = [Call("putOne", name, db[name], 0, FALSE, <<>>, FALSE, <<>>,
                         Failed(g.log) \/ (insertId /\ ~lastval))
                        EXCEPT !.putLog = g.log]
        /\ prev' = Summary(last)
        /\ UNCHANGED <<schemas, onStartFuncs, hookVars, poolVars>>

Add == \E schema \in Declared : \E r \in PkRowChoices(db, schema.name) : add(schema, r)

Change == \E name \in DOMAIN schemas : \E r \in PkRowChoices(db, name) : change(name, r)

Create == \E name \in DOMAIN schemas : \E drop \in BOOLEAN : create(name, drop)

Next == Add \/ Change \/ Create

Spec == Init /\ [][Next]_vars

----------------------------------------------------------------------------
(* The life of a process: registrations, process-ready, records stored.     *)
(* Two tables and few declarations, so that the hooks of different schemas  *)
(* and the kinds of primary key meet.                                        *)

UseNames == {"test", "groups"}

GroupSchema == [SchemaOf("groups", <<A_auto>>, <<"a">>, <<>>) EXCEPT !.onCreate = TRUE]

UseDeclared ==
    {HookSchema, GroupSchema,
     SchemaOf("test", <<A_int, B_10>>, <<"a">>, <<>>),
     SchemaOf("test", <<A_int, B_10>>, <<"a", "b">>, <<>>),
     SchemaOf("test", <<A_int, B_10>>, <<>>, <<>>)}

InitUse ==
    /\ schemas = [n \in UseNames |-> NoSchema]
    /\ onStartFuncs = <<>>
    /\ db \in [UseNames -> {Absent, ExampleTable}]
    /\ last = NoCall
    /\ prev = Summary(NoCall)
    /\ registered = <<>>
    /\ started = FALSE
    /\ hooksRun = <<>>
    /\ absentAtAdd = {}
    /\ NoThreads

AddUse == \E schema \in UseDeclared : \E r \in PkRowChoices(db, schema.name) : add(schema, r)

OnStart == onStart

PutOne == \E name \in DOMAIN schemas : \E hasKey, lastval \in BOOLEAN : putOne(name, hasKey, lastval)

NextUse == AddUse \/ Change \/ Create \/ OnStart \/ PutOne

SpecUse == InitUse /\ [][NextUse]_vars

----------------------------------------------------------------------------
(* The driver under threads: lib/PostgreSQL.js.                             *)
(* update(query) is three steps: getConnection, executeUpdate on the        *)
(* connection, releaseConnection in the finally clause.  getConnection and  *)
(* releaseConnection are sync() on the pool, so each is one step; threads   *)
(* interleave between the steps.                                            *)

\* what a thread does with SQL in one request: a transaction that commits,
\* one that rolls back, a read before or after an update
Scripts ==
    {<<"BEGIN", "UPDATE", "COMMIT">>, <<"BEGIN", "ROLLBACK">>,
     <<"SELECT", "UPDATE">>, <<"UPDATE", "SELECT">>}

InitPool ==
    /\ schemas = [n \in TableNames |-> NoSchema]
    /\ onStartFuncs = <<>>
    /\ db = [n \in TableNames |-> Absent]
    /\ last = NoCall
    /\ prev = Summary(NoCall)
    /\ registered = <<>>
    /\ started = FALSE
    /\ hooksRun = <<>>
    /\ absentAtAdd = {}
    /\ pool = <<>>
    /\ nconn = 0
    /\ threads \in [Threads -> {Thread(sc) : sc \in Scripts}]
    /\ tx = [c \in Threads |-> 0]

\* update(): this.getConnection() -- me.SQL, else the top of the pool, else a
\* new connection
getConnection(t) ==
    LET me == threads[t]
    IN  /\ me.step = "idle"
        /\ me.at <= Len(me.script)
        /\ IF me.SQL # 0
           THEN /\ threads' = [threads EXCEPT ![t].step = "held"]
                /\ UNCHANGED <<pool, nconn>>
           ELSE IF pool # <<>>
           THEN /\ threads' = [threads EXCEPT ![t].SQL = pool[Len(pool)],
                                               ![t].step = "held"]
                /\ pool' = SubSeq(pool, 1, Len(pool) - 1)
                /\ UNCHANGED nconn
           ELSE /\ nconn < MaxThreads
                /\ nconn' = nconn + 1
                /\ threads' = [threads EXCEPT ![t].SQL = nconn + 1,
                                               ![t].step = "held"]
                /\ UNCHANGED pool
        /\ UNCHANGED <<tx, schemaVars>>

\* update(): statement.executeUpdate(query) on the connection it holds; ok:
\* the driver did not throw.  Thrown or not, the finally clause comes next.
executeUpdate(t, ok) ==
    LET me == threads[t]
        query == me.script[me.at]
    IN  /\ me.step = "held"
        /\ query # "SELECT"
        /\ tx' = IF ~ok THEN tx
                 ELSE IF query = "BEGIN"
                 THEN [tx EXCEPT ![me.SQL] = IF @ = 0 THEN t ELSE @]
                 ELSE IF query \in {"COMMIT", "ROLLBACK"}
                 THEN [tx EXCEPT ![me.SQL] = 0]
                 ELSE tx
        /\ threads' = [threads EXCEPT
                          ![t].step = "executed",
                          ![t].begun = IF ~ok THEN @
                                       ELSE IF query = "BEGIN" THEN me.SQL
                                       ELSE IF query \in {"COMMIT", "ROLLBACK"} THEN 0
                                       ELSE @]
        /\ UNCHANGED <<pool, nconn, schemaVars>>

\* getDataRows(): statement.executeQuery(query) and the reading of the rows;
\* when the driver throws, getDataRows is left without releaseConnection and
\* the thread keeps me.SQL
executeQuery(t, ok) ==
    LET me == threads[t]
    IN  /\ me.step = "held"
        /\ me.script[me.at] = "SELECT"
        /\ threads' = IF ok THEN [threads EXCEPT ![t].step = "executed"]
                      ELSE [threads EXCEPT ![t].step = "idle", ![t].at = me.at + 1]
        /\ UNCHANGED <<pool, nconn, tx, schemaVars>>

\* a release that puts the connection on the pool and keeps me.SQL
releaseConnection_keepsSQL(t) ==
    LET me == threads[t]
    IN  /\ me.step = "executed"
        /\ pool' = IF me.SQL # 0 THEN Append(pool, me.SQL) ELSE pool
        /\ threads' = [threads EXCEPT ![t].step = "idle", ![t].at = me.at + 1]
        /\ UNCHANGED <<nconn, tx, schemaVars>>

\* update() / getDataRows(): this.releaseConnection(connection) -- me.SQL goes
\* back on the pool and is deleted
releaseConnection(t) ==
    LET me == threads[t]
    IN  /\ me.step = "executed"
        /\ pool' = IF me.SQL # 0 THEN Append(pool, me.SQL) ELSE pool
        /\ threads' = [threads EXCEPT ![t].SQL = 0, ![t].step = "idle",
                                       ![t].at = me.at + 1]
        /\ UNCHANGED <<nconn, tx, schemaVars>>

GetConnection == \E t \in Threads : getConnection(t)

\* the endRequest handler of the thread: releaseConnection, once its request
\* is over
endRequest(t) ==
    LET me == threads[t]
    IN  /\ me.step = "idle"
        /\ me.at > Len(me.script)
        /\ pool' = IF me.SQL # 0 THEN Append(pool, me.SQL) ELSE pool
        /\ threads' = [threads EXCEPT ![t].SQL = 0, ![t].step = "ended"]
        /\ UNCHANGED <<nconn, tx, schemaVars>>

ExecuteUpdate == \E t \in Threads : \E ok \in BOOLEAN : executeUpdate(t, ok)

ExecuteQuery == \E t \in Threads : \E ok \in BOOLEAN : executeQuery(t, ok)

ReleaseConnection == \E t \in Threads : releaseConnection(t)

EndRequest == \E t \in Threads : endRequest(t)

NextPool ==
    GetConnection \/ ExecuteUpdate \/ ExecuteQuery \/ ReleaseConnection \/ EndRequest

SpecPool == InitPool /\ [][NextPool]_vars

----------------------------------------------------------------------------
(* What a call did, as the properties below read it *)

\* the statements of a log, and those the engine accepted
Stmts(log) == [i \in 1..Len(log) |-> log[i].stmt]

Ops(log) == [i \in 1..Len(log) |-> log[i].stmt.op]

\* the declaration the last call worked on
LastSchema == schemas[last.name]

\* the descriptor Schema.change read at the start of the last call
LastExisting == getFromTable([n \in {last.name} |-> last.pre], last.name, last.r)

Reconciled == last.op \in {"add", "change"} /\ last.reconciled

ColumnOps == {"AlterColumnType", "RenameColumn", "DropColumn", "AddColumn", "UpdateAll"}
KeyOps == {"DropPrimaryKey", "AddPrimaryKey"}
IndexOps == {"DropIndex", "AddIndex"}

RECURSIVE Select(_, _)
\* the statements of a sequence whose op is in Kinds, in order
Select(stmts, Kinds) ==
    IF stmts = <<>> THEN <<>>
    ELSE IF Head(stmts).op \in Kinds THEN <<Head(stmts)>> \o Select(Tail(stmts), Kinds)
    ELSE Select(Tail(stmts), Kinds)

----------------------------------------------------------------------------
(* C1: Schema.add stores the schema and then creates the table exactly when
   it does not exist (Schema.exists false) and reconciles exactly when it
   exists; it never issues CREATE TABLE for an existing table, never
   reconciles an absent one, and if no statement fails the table exists when
   add returns. *)
C1_CreateIffAbsent ==
    last.op = "add" =>
        /\ schemas[last.name] # NoSchema
        /\ last.created <=> ~last.pre.exists
        /\ last.reconciled <=> last.pre.exists
        /\ (~Failed(last.createLog) /\ ~Failed(last.changeLog)) => db[last.name].exists

(* C2: idempotence of reconciliation.  After Schema.change has fully applied
   its statements for a declaration (none was rejected), a second
   Schema.change of the same declaration issues no statement at all. *)
C2_SecondChangeIssuesNothing ==
    (last.op = "change" /\ prev.applied) => last.changeLog = <<>>

(* C3: round trip.  Schema.create of a declaration on an empty database,
   then Schema.change of the same declaration (which introspects the table
   with Schema.getFromTable), issues no statement. *)
C3_ChangeAfterCreateIssuesNothing ==
    (last.op = "change" /\ prev.op = "create" /\ ~prev.preExists /\ prev.created)
        => last.changeLog = <<>>

\* how often statement x is in the sequence stmts
Count(stmts, x) == Cardinality({i \in 1..Len(stmts) : stmts[i] = x})

\* declared physical fields and existing columns that share no name
LastUnnamedSrc ==
    Filter(PhysicalFields(LastSchema.fields), Names(LastExisting.fields))
LastUnnamedDst ==
    Filter(LastExisting.fields, Names(PhysicalFields(LastSchema.fields)))

RECURSIVE FirstCompatiblePairs(_, _)
\* each declared field in turn takes the first type-compatible column not
\* yet taken, in the columns' introspected order
FirstCompatiblePairs(srcFields, dstFields) ==
    IF srcFields = <<>> THEN <<>>
    ELSE LET fits == {i \in 1..Len(dstFields) :
                        fieldTypeCompare(Head(srcFields), dstFields[i])}
         IN  IF fits = {} THEN FirstCompatiblePairs(Tail(srcFields), dstFields)
             ELSE LET i == CHOOSE k \in fits : \A m \in fits : k <= m
                  IN  <<[from |-> dstFields[i].name, to |-> Head(srcFields).name]>>
                      \o FirstCompatiblePairs(Tail(srcFields),
                                              Filter(dstFields, {dstFields[i].name}))

LastPairs == FirstCompatiblePairs(LastUnnamedSrc, LastUnnamedDst)

(* C4: rename detection.  For each declared field without a same-named
   column, the first type-compatible column not yet consumed (in introspected
   order) is renamed to it: exactly one rename from the column's name to the
   field's name is issued, and neither a drop of the old column nor an add of
   the new one. *)
C4_RenameForEachPair ==
    Reconciled =>
        \A k \in 1..Len(LastPairs) :
            LET p == LastPairs[k]
                issued == Stmts(last.changeLog)
            IN  /\ Count(issued, RenameColumn(last.name, p.from, p.to)) = 1
                /\ \A i \in 1..Len(issued) :
                      /\ ~(issued[i].op = "DropColumn" /\ issued[i].col = p.from)
                      /\ ~(issued[i].op = "AddColumn" /\ issued[i].col = p.to)

\* the example of examples/schema/test.js, run on the table its first
\* registration left behind
ExampleRun ==
    /\ last.op = "add"
    /\ last.pre = ExampleTable
    /\ LastSchema = ExampleSchema

(* C5 as stated: on table test(a serial primary key, b varchar(10), c int)
   Schema.add of the example declaration produces exactly a drop of c, an add
   of d with a backfill to 0, an add of testCamelCase with a backfill to the
   empty string, and no rename. *)
C5_ExampleDropsAndAdds ==
    ExampleRun =>
        Stmts(last.changeLog) =
            <<DropColumn("test", "c"),
              AddColumn("test", "d", [t |-> "int", size |-> 0]),
              UpdateAll("test", "d", "'0'"),
              AddColumn("test", "testCamelCase", [t |-> "varchar", size |-> 20]),
              UpdateAll("test", "testCamelCase", "''")>>

(* C5 as amended: the reconciliation of that call renames c to d, then
   issues the change-type statement for the old name c, which is rejected;
   nothing is dropped or added, so testCamelCase is not created. *)
C5_ExampleRenames ==
    ExampleRun =>
        /\ last.reconciled
        /\ last.changeLog =
            <<[stmt |-> RenameColumn("test", "c", "d"), ok |-> TRUE],
              [stmt |-> AlterColumnType("test", "c", [t |-> "int", size |-> 0]),
               ok |-> FALSE]>>
        /\ ColNames(db["test"]) = {"a", "b", "d"}

C5_Witness == ExampleRun /\ last.changeLog # <<>>

\* the column-level statements of a sequence that name column n
Touching(stmts, n) ==
    Select([i \in 1..Len(stmts) |->
               IF stmts[i].col = n \/ stmts[i].to = n THEN stmts[i]
               ELSE Stmt("other", "")],
           ColumnOps)

\* declared physical fields with a column of the same name
LastNamedSrc ==
    {f \in Range(PhysicalFields(LastSchema.fields)) : f.name \in Names(LastExisting.fields)}

(* C6: exact-name pass.  For every declared physical field with a same-named
   column, the call issues no statement for that name when the two compare
   type-compatible, and otherwise exactly one change-type statement for that
   column carrying the declared type, size or auto-increment, with no rename,
   drop or add for that name. *)
C6_ExactNamePass ==
    Reconciled =>
        \A f \in LastNamedSrc :
            Touching(Stmts(last.changeLog), f.name) =
                IF fieldTypeCompare(f, ByName(LastExisting.fields, f.name))
                THEN <<>>
                ELSE <<AlterColumnType(last.name, f.name, CreateColumnType(f))>>

C6_Witness ==
    /\ Reconciled
    /\ \E f \in LastNamedSrc :
          /\ f.type = "varchar"
          /\ ~fieldTypeCompare(f, ByName(LastExisting.fields, f.name))
          /\ \E i \in 1..Len(last.changeLog) :
                /\ last.changeLog[i].ok
                /\ last.changeLog[i].stmt.op = "AlterColumnType"
                /\ last.changeLog[i].stmt.col = f.name

\* all statements of the kinds in Kinds that the last reconciliation issued
\* were accepted
Accepted(Kinds) ==
    \A i \in 1..Len(last.changeLog) :
        last.changeLog[i].stmt.op \in Kinds => last.changeLog[i].ok

(* C7: primary-key pass.  The declared primaryKey is compared with the
   table's primary key as a string, composite form included: key only on the
   table gives one drop-primary-key, key only declared gives one
   add-primary-key, both and different gives drop then add, equal gives no
   primary-key statement.  Read here for the calls whose column statements
   were all accepted, so that the pass is reached. *)
C7_PrimaryKeyPass ==
    (Reconciled /\ last.pre.exists /\ Accepted(ColumnOps)) =>
        Select(Stmts(last.changeLog), KeyOps) =
            IF last.pre.pk # <<>> /\ LastSchema.primaryKey = <<>>
            THEN <<DropPrimaryKey(last.name)>>
            ELSE IF LastSchema.primaryKey # <<>> /\ last.pre.pk = <<>>
            THEN <<AddPrimaryKey(last.name, LastSchema.primaryKey)>>
            ELSE IF LastSchema.primaryKey # last.pre.pk
            THEN <<DropPrimaryKey(last.name),
                   AddPrimaryKey(last.name, LastSchema.primaryKey)>>
            ELSE <<>>

\* the keys of the table's secondary indexes, in their order
LastIndexKeys == [i \in 1..Len(last.pre.idx) |-> last.pre.idx[i].cols]

RECURSIVE KeysNotIn(_, _)
KeysNotIn(keys, others) ==
    IF keys = <<>> THEN <<>>
    ELSE IF Head(keys) \in Range(others) THEN KeysNotIn(Tail(keys), others)
    ELSE <<Head(keys)>> \o KeysNotIn(Tail(keys), others)

(* C8: index pass.  One drop-index for every existing index whose key is not
   declared, in existing order, then one add-index for every declared index
   whose key does not exist, in declared order, nothing for an index in both.
   Read here for the calls whose column and primary-key statements were all
   accepted, so that the pass is reached. *)
C8_IndexPass ==
    (Reconciled /\ last.pre.exists /\ Accepted(ColumnOps \cup KeyOps)) =>
        LET drops == KeysNotIn(LastIndexKeys, LastSchema.indexes)
            adds == KeysNotIn(LastSchema.indexes, LastIndexKeys)
        IN  Select(Stmts(last.changeLog), IndexOps) =
                [i \in 1..Len(drops) |-> DropIndex(ChangeIndexName(drops[i]))]
                \o [i \in 1..Len(adds) |->
                      AddIndex(last.name, ChangeIndexName(adds[i]), adds[i])]

\* the place of a statement in the order of one reconciliation
Rank(s) ==
    IF s.op = "AlterColumnType"
    THEN IF s.col \in {f.name : f \in LastNamedSrc} THEN 1 ELSE 2
    ELSE IF s.op = "RenameColumn" THEN 2
    ELSE IF s.op = "DropColumn" THEN 3
    ELSE IF s.op \in {"AddColumn", "UpdateAll"} THEN 4
    ELSE IF s.op \in KeyOps THEN 5
    ELSE 6

Ordered(stmts) == \A i, j \in 1..Len(stmts) : i < j => Rank(stmts[i]) <= Rank(stmts[j])

(* C9: order of one reconciliation.  In the statements one Schema.change
   issues, every column statement precedes every primary-key statement, every
   primary-key statement precedes every index statement, and among the column
   statements the retypes of same-named fields come first, then the renames,
   then the drops, then the adds.  It holds of the statements issued and of
   the whole sequence the call was going to issue. *)
C9_PassOrder ==
    Reconciled =>
        /\ Ordered(Stmts(last.changeLog))
        /\ Ordered(ChangeStmts(last.name, LastSchema, LastExisting))

C9_Witness ==
    /\ Reconciled
    /\ {"AlterColumnType", "AddColumn", "DropPrimaryKey", "AddIndex"}
          \subseteq Range(Ops(last.changeLog))

\* declared physical fields matched by no column after the first two passes
LastUnmatchedSrc ==
    Filter(LastUnnamedSrc, {LastPairs[k].to : k \in 1..Len(LastPairs)})

(* C10: backfill on add.  For every declared field left unmatched after the
   exact-name and rename passes the call issues an add-column statement
   immediately followed by the update that sets the column to
   defaultValue(field) in every row.  Read here for the calls on a table that
   exists. *)
C10_UnmatchedAddedAndFilled ==
    (Reconciled /\ last.pre.exists) =>
        \A k \in 1..Len(LastUnmatchedSrc) :
            LET f == LastUnmatchedSrc[k]
                issued == Stmts(last.changeLog)
            IN  \E i \in 1..Len(issued) :
                    /\ issued[i].op = "AddColumn"
                    /\ issued[i].col = f.name
                    /\ i < Len(issued)
                    /\ issued[i + 1] = UpdateAll(last.name, f.name, quote(defaultValue(f)))

\* the default the declaration asks for: the literal whatever its value,
\* the function's result, or 0 for the integer family and '' otherwise
IntegerFamily == {"int", "tinyint", "smallint", "bigint", "integer"}

DeclaredDefault(field) ==
    IF field.defaultValue # "undefined"
    THEN IF IsFunction(field.defaultValue)
         THEN CallResult(field.defaultValue)
         ELSE field.defaultValue
    ELSE IF field.type \in IntegerFamily THEN "0"
    ELSE "''"

(* C11: defaultValue(field) is the declared literal whatever its value (0,
   the empty string and false included), the result of the declared function
   called with no arguments, and with no declared default 0 for every
   integer-family type and the empty string for every other type.  Stated of
   every field of a schema that Schema.add has registered. *)
C11_DefaultValue ==
    \A n \in DOMAIN schemas :
        \A f \in Range(schemas[n].fields) : defaultValue(f) = DeclaredDefault(f)

\* the place of x in a sequence that holds it
Pos(seq, x) == CHOOSE i \in 1..Len(seq) : seq[i] = x

(* C12: seeding-hook ordering.  No onCreate hook runs during Schema.add or
   Schema.create: hooks run only in the process-ready step; they run in the
   order in which their schemas were registered; and when process-ready has
   run a hook, the table of every schema registered before it exists. *)
C12_HooksAfterMaterialization ==
    /\ hooksRun # <<>> => started
    /\ \A i, j \in 1..Len(hooksRun) :
          i < j => Pos(registered, hooksRun[i]) <= Pos(registered, hooksRun[j])
    /\ (last.op = "onStart" /\ hooksRun # <<>>) =>
          \A n \in Range(registered) : db[n].exists

(* C13: seeding hooks run exactly once.  When process-ready has completed,
   the hook of every schema that was registered through Schema.add while its
   table was absent has run exactly once, and no hook has run more than
   once, whatever Schema.create calls and repeated registrations came
   before. *)
C13_HooksExactlyOnce ==
    started =>
        /\ \A n \in absentAtAdd : schemas[n].onCreate => Count(hooksRun, n) = 1
        /\ \A n \in DOMAIN schemas : Count(hooksRun, n) <= 1

(* C14: statement failures are surfaced.  When the driver rejects a
   statement issued during Schema.add, in its create branch or in its
   reconcile branch, or during a direct Schema.change, the call ends with an
   error reaching its caller: the call never returns normally after one of
   its statements failed. *)
C14_FailuresSurface ==
    (last.op \in {"add", "change"}
        /\ (Failed(last.createLog) \/ Failed(last.changeLog)))
    => last.threw

RECURSIVE ApplyAccepted(_, _)
\* the catalog after the accepted statements of a log and nothing else
ApplyAccepted(d, log) ==
    IF log = <<>> THEN d
    ELSE ApplyAccepted(IF Head(log).ok THEN Effect(d, Head(log).stmt) ELSE d, Tail(log))

(* C15: abort on failure without rollback.  Within one Schema.add or
   Schema.change call, once a statement has been rejected no further
   statement is executed in that call, and the statements executed before
   the failure stay in effect: the table is what the accepted statements
   made of it. *)
C15_AbortWithoutRollback ==
    last.op \in {"add", "change"} =>
        LET log == last.createLog \o last.changeLog
        IN  /\ \A i \in 1..Len(log) : ~log[i].ok => i = Len(log)
            /\ db[last.name] =
                  ApplyAccepted([n \in {last.name} |-> last.pre], log)[last.name]

(* C16: introspection of a table that does not exist fails.  A
   reconciliation of an absent table therefore issues no statement, and a
   direct Schema.change of it ends with the not-found error: reconciliation
   never proceeds from an empty descriptor. *)
C16_AbsentTableNotReconciled ==
    (Reconciled /\ ~last.pre.exists) =>
        /\ last.changeLog = <<>>
        /\ last.op = "change" => last.threw

(* C17: introspected index list.  The indexes of the descriptor that
   Schema.getFromTable returns hold one entry for every index of the table
   except the implicit primary-key index, none for that one, and each entry
   has the form of a declared index: the whole key of the index, composite
   or not.  Stated of the descriptor each reconciliation read. *)
C17_IntrospectedIndexes ==
    (Reconciled /\ last.pre.exists) => LastExisting.indexes = LastIndexKeys

(* C18: Schema.putOne inserts a new record or updates an existing one: every
   call that returns normally has issued exactly one INSERT or exactly one
   UPDATE on the schema's table, whatever the kind of primary key the schema
   declares. *)
C18_PutOneWrites ==
    (last.op = "putOne" /\ ~last.threw) =>
        /\ Len(last.putLog) = 1
        /\ last.putLog[1].ok
        /\ last.putLog[1].stmt.op \in {"InsertInto", "UpdateRow"}
        /\ last.putLog[1].stmt.table = last.name

\* compatibility as declared: a field without the flag is not auto-increment
Compatible(a, b) ==
    /\ a.type = b.type
    /\ a.type = "varchar" => a.size = b.size
    /\ a.type = "int" => ((a.autoIncrement = "true") <=> (b.autoIncrement = "true"))

(* C19: transaction grouping.  Every statement a thread issues through
   update() between its startTransaction() and its commit() or rollback()
   runs on the connection its BEGIN ran on, and no thread's statement runs on
   a connection on which another thread's transaction is open, whatever the
   interleaving of the threads on the pool.  Stated of the connection a
   thread holds when it is about to execute. *)
C19_TransactionOnOneConnection ==
    \A t \in Threads :
        threads[t].step = "held" =>
            /\ threads[t].begun # 0 => threads[t].SQL = threads[t].begun
            /\ tx[threads[t].SQL] \in {0, t}

(* C20: type-compatibility predicate.  fieldTypeCompare(a, b) is true exactly
   when the types are equal and, for varchar, the sizes are equal, for int,
   the auto-increment flags are equal, a field that omits the flag counting
   as not auto-increment; for every other type equal types suffice.  Stated
   of every declared field and every introspected field a reconciliation
   compares. *)
C20_FieldTypeCompare ==
    Reconciled =>
        \A src \in Range(PhysicalFields(LastSchema.fields)) :
            \A dst \in Range(LastExisting.fields) :
                fieldTypeCompare(src, dst) <=> Compatible(src, dst)

\* the CREATE TABLE statements of a log
CreateTables(log) == Select(Stmts(log), {"CreateTable"})

(* C21: primary key in CREATE TABLE.  The statement Schema.create builds
   has at most one primary-key clause: it names the declared primaryKey when
   one is declared, otherwise an auto-increment field of the schema when
   there is one, and there is none otherwise; a field flagged reserved or
   clientOnly gives no column and is never the implicit primary key. *)
C21_CreatePrimaryKey ==
    \A i \in 1..Len(CreateTables(last.createLog)) :
        LET s == CreateTables(last.createLog)[i]
            fields == LastSchema.fields
            stored == {f \in Range(fields) : ~f.reserved /\ ~f.clientOnly}
            autos == {f.name : f \in {g \in stored : g.autoIncrement = "true"}}
        IN  /\ {s.cols[k].name : k \in 1..Len(s.cols)} = {f.name : f \in stored}
            /\ Len(s.cols) = Cardinality(stored)
            /\ IF LastSchema.primaryKey # <<>> THEN s.key = LastSchema.primaryKey
               ELSE IF autos = {} THEN s.key = <<>>
               ELSE Len(s.key) = 1 /\ s.key[1] \in autos

C21_Witness ==
    /\ last.op \in {"create", "recreate"}
    /\ LastSchema.primaryKey = <<>>
    /\ \E f \in Range(LastSchema.fields) : f.reserved
    /\ \E i \in 1..Len(last.createLog) :
          /\ last.createLog[i].ok
          /\ last.createLog[i].stmt.op = "CreateTable"
          /\ last.createLog[i].stmt.key = <<"a">>

\* the statements the last reconciliation set out to issue
LastPlan == ChangeStmts(last.name, LastSchema, LastExisting)

\* names that are a declared physical field and an existing column
LastSameNames == {f.name : f \in LastNamedSrc}

\* what a sequence of statements does with the existing column c
ColumnFates(stmts, c) ==
    (IF c \in LastSameNames
     THEN IF \E i \in 1..Len(stmts) : stmts[i].op = "AlterColumnType" /\ stmts[i].col = c
          THEN {"retyped"} ELSE {"kept"}
     ELSE {})
    \cup (IF \E i \in 1..Len(stmts) : stmts[i].op = "RenameColumn" /\ stmts[i].col = c
          THEN {"renamed"} ELSE {})
    \cup (IF \E i \in 1..Len(stmts) : stmts[i].op = "DropColumn" /\ stmts[i].col = c
          THEN {"dropped"} ELSE {})

\* what a sequence of statements does for the declared field called n
FieldFates(stmts, n) ==
    (IF n \in LastSameNames
     THEN IF \E i \in 1..Len(stmts) : stmts[i].op = "AlterColumnType" /\ stmts[i].col = n
          THEN {"retyped"} ELSE {"matched"}
     ELSE {})
    \cup (IF \E i \in 1..Len(stmts) : stmts[i].op = "RenameColumn" /\ stmts[i].to = n
          THEN {"target"} ELSE {})
    \cup (IF \E i \in 1..Len(stmts) : stmts[i].op = "AddColumn" /\ stmts[i].col = n
          THEN {"added"} ELSE {})

\* no column is renamed, dropped or retyped twice, no field added twice
OncePerName(stmts) ==
    \A op \in {"AlterColumnType", "RenameColumn", "DropColumn", "AddColumn"} :
        \A i, j \in 1..Len(stmts) :
            (stmts[i].op = op /\ stmts[j].op = op /\ stmts[i].col = stmts[j].col) => i = j

(* C22: single consumption.  In one Schema.change call every existing column
   is kept, retyped in place, renamed or dropped, and no two of these; every
   declared physical field is matched, retyped in place, the target of a
   rename or added, exactly one of these; no column is the source of two
   renames and none that was matched or renamed is dropped.  It holds of what
   the call sets out to do, and the statements it issues never give a column
   or a field two of these. *)
C22_SingleConsumption ==
    (Reconciled /\ last.pre.exists) =>
        /\ OncePerName(LastPlan)
        /\ \A c \in Names(LastExisting.fields) :
              /\ Cardinality(ColumnFates(LastPlan, c)) = 1
              /\ Cardinality(ColumnFates(Stmts(last.changeLog), c)) <= 1
        /\ \A f \in Range(PhysicalFields(LastSchema.fields)) :
              /\ Cardinality(FieldFates(LastPlan, f.name)) = 1
              /\ Cardinality(FieldFates(Stmts(last.changeLog), f.name)) <= 1

C22_Witness ==
    /\ Reconciled
    /\ last.pre.exists
    /\ {"RenameColumn", "DropColumn", "AddColumn"}
          \subseteq {LastPlan[i].op : i \in 1..Len(LastPlan)}
    /\ "RenameColumn" \in Range(Ops(last.changeLog))

\* the table of the last call as it was when statement i of its
\* reconciliation was executed
TableBefore(i) ==
    ApplyAccepted([n \in {last.name} |-> last.pre],
                  SubSeq(last.changeLog, 1, i - 1))[last.name]

(* C23: statements name live columns.  Every column-level statement that
   Schema.change issues refers to a column the table has at the moment the
   statement is executed, given the statements executed before it in the
   call; after a rename from old to new no later statement of the call, the
   change-type statement of the same rename step included, refers to old. *)
C23_StatementsNameLiveColumns ==
    (Reconciled /\ last.pre.exists) =>
        \A i \in 1..Len(last.changeLog) :
            LET s == last.changeLog[i].stmt
            IN  s.op \in {"RenameColumn", "AlterColumnType", "DropColumn", "UpdateAll"}
                    => s.col \in ColNames(TableBefore(i))

(* C24: consistent index naming.  The name Schema.change uses when it adds
   or drops the index with key k on table t is the name Schema.create gives
   to the index declared with key k on t. *)
C24_IndexNames ==
    Reconciled =>
        \A i \in 1..Len(last.changeLog) :
            LET s == last.changeLog[i].stmt
            IN  /\ s.op = "AddIndex" => s.iname = CreateIndexName(last.name, s.key)
                /\ s.op = "DropIndex" =>
                      s.iname \in {CreateIndexName(last.name, k) :
                                      k \in Range(LastExisting.indexes)}

(* C25: connection exclusivity.  Under every interleaving of the threads'
   getDataRows and update calls and of the endRequest release handler, each
   connection is at any time either on the pool exactly once or attached to
   exactly one thread as its me.SQL, never both and never attached to two
   threads; also after a query has thrown inside getDataRows or update. *)
C25_ConnectionExclusive ==
    \A c \in 1..nconn :
        LET pooled == Cardinality({i \in 1..Len(pool) : pool[i] = c})
            holders == Cardinality({t \in Threads : threads[t].SQL = c})
        IN  pooled + holders = 1

\* a thread whose read threw keeps its connection while another is pooled
C25_Witness ==
    /\ pool # <<>>
    /\ \E t \in Threads :
          /\ threads[t].step = "idle"
          /\ threads[t].SQL # 0
          /\ threads[t].at > 1

====
